---- MODULE Spec2Model ----
(***************************************************************************)
(* Model of src/api/interactive-coding.py: the pattern classifier, the     *)
(* analysis store, the video-job store and the background video task.      *)
(*                                                                         *)
(* Handlers are `async def` functions run by one event loop, so the code   *)
(* between two `await`s is one atomic step.  analyze_code, generate_video, *)
(* get_video_status, get_analysis and get_user_history hold no `await`:    *)
(* each is one action.  generate_video_background awaits asyncio.sleep(1)  *)
(* four times: it is five steps.                                           *)
(***************************************************************************)
EXTENDS Integers, Sequences, FiniteSets, TLC

VARIABLES
    clock,                    \* the wall clock, in ticks (TicksPerMs ticks per millisecond)
    calls,                    \* POST requests served so far (analyze + generate-video)
    analysis_storage,         \* dict analysis_id -> analysis_result
    video_generation_status,  \* dict video_id -> video_status
    tasks,                    \* background tasks, in the order add_task scheduled them
    response,                 \* what the handler run by the last step returned (Idle if none ran)
    cls_in,                   \* SpecClassify: the analysis_data handed to the classifier
    cls_out,                  \* SpecClassify: the label it returned
    conf_out                  \* SpecClassify: the confidence calculated for it (None before)

vars == <<clock, calls, analysis_storage, video_generation_status, tasks, response,
          cls_in, cls_out, conf_out>>

----------------------------------------------------------------------------
(* Bounds of the model *)

MaxCalls == 2        \* POST requests served in one behaviour of Spec
MaxCallsSmall == 1   \* POST requests served in one behaviour of SmallSpec and LiveSpec
MaxClock == 1        \* last tick the clock reaches by single ticks
MaxLag == 1          \* ticks that may pass between two clock reads of one handler
TicksPerMs == 1      \* clock resolution: ticks per millisecond
MaxHooks == 2        \* SpecClassify: size of the hooks set

(* Program constants *)

SleepMs == 1000      \* asyncio.sleep(1)
InitialProgress == 10
RangeStart == 20     \* range(20, 100, 20)
RangeStop == 100
RangeStep == 20
FinalProgress == 100
VideoDuration == 8

----------------------------------------------------------------------------
(* Python values *)

\* Optional[T]: None is the empty sequence, a value v is <<v>>.
None == <<>>
Some(v) == <<v>>

\* Truthiness of a list or a set: non-empty.
Truthy(xs) == xs # {}

\* dict.update(u): the keys of u are set, the others kept.
DictUpdate(d, u) ==
    [k \in DOMAIN d \cup DOMAIN u |-> IF k \in DOMAIN u THEN u[k] ELSE d[k]]

\* d[key] = value on a dict: insert or overwrite.
DictSet(d, key, value) ==
    [k \in DOMAIN d \cup {key} |-> IF k = key THEN value ELSE d[k]]

\* needle in h, on names written as sequences of word pieces.
Contains(h, needle) ==
    \E i \in 1..(Len(h) - Len(needle) + 1) :
        SubSeq(h, i, i + Len(needle) - 1) = needle

useState == <<"use", "State">>
useReducer == <<"use", "Reducer">>
useEffect == <<"use", "Effect">>

\* xs[:limit]: a negative limit counts from the end.
SliceTo(xs, limit) ==
    IF limit >= 0
    THEN SubSeq(xs, 1, IF limit < Len(xs) THEN limit ELSE Len(xs))
    ELSE SubSeq(xs, 1, IF Len(xs) + limit > 0 THEN Len(xs) + limit ELSE 0)

\* int(time.time() * 1000): the clock truncated to whole milliseconds.
MintId(t) == t \div TicksPerMs

\* datetime.now().isoformat(): a fixed-layout text whose lexicographic order is
\* the order of the instants, so the instant itself stands for it.
IsoFormat(t) == t

----------------------------------------------------------------------------
(* InteractiveCodingAnalyzer *)

JsFamily == {"javascript", "typescript"}

\* Source text is a sequence of the surface forms the regular expressions look
\* for: [form, cap, text].  cap says whether the captured name starts with a
\* capital letter; text is the captured name, a sequence of word pieces.
Forms(code, wanted) ==
    {code[i].text : i \in {j \in 1..Len(code) : code[j].form \in wanted /\ code[j].cap}}

extract_components(code, language) ==
    IF language \in JsFamily THEN Forms(code, {"function", "const_arrow"})
    ELSE IF language = "python" THEN Forms(code, {"class"})
    ELSE {}

extract_hooks(code, language) ==
    IF language \in JsFamily THEN Forms(code, {"use"}) ELSE {}

extract_event_handlers(code, language) ==
    IF language \in JsFamily THEN Forms(code, {"on_attr"}) ELSE {}

extract_styling(code, language) ==
    IF language \in JsFamily THEN Forms(code, {"className", "style"})
    ELSE IF language = "python" THEN Forms(code, {"class_name"})
    ELSE {}

\* Mutant: the side-effect test made before the state test.
determine_change_type_effect_first(analysis_data) ==
    IF Truthy(analysis_data.hooks)
       /\ \E h \in analysis_data.hooks : Contains(h, useEffect)
    THEN "side_effects"
    ELSE IF Truthy(analysis_data.hooks)
            /\ \E h \in analysis_data.hooks : Contains(h, useState) \/ Contains(h, useReducer)
    THEN "state_management"
    ELSE IF Truthy(analysis_data.events) THEN "event_handling"
    ELSE IF Truthy(analysis_data.styling) THEN "styling"
    ELSE IF Truthy(analysis_data.components) THEN "component_structure"
    ELSE "general_coding"

determine_change_type(analysis_data) ==
    IF Truthy(analysis_data.hooks)
       /\ \E h \in analysis_data.hooks : Contains(h, useState) \/ Contains(h, useReducer)
    THEN "state_management"
    ELSE IF Truthy(analysis_data.hooks)
            /\ \E h \in analysis_data.hooks : Contains(h, useEffect)
    THEN "side_effects"
    ELSE IF Truthy(analysis_data.events) THEN "event_handling"
    ELSE IF Truthy(analysis_data.styling) THEN "styling"
    ELSE IF Truthy(analysis_data.components) THEN "component_structure"
    ELSE "general_coding"

(* Python floats are IEEE 754 binary64.  A float in [0.25, 2) is written
   <<hi, lo>>: the value (hi * Limb + lo) * 2^-55, which every such double is
   exactly.  Doubles in [0.5, 1) are the multiples of 4 of that unit, those in
   [1, 2) the multiples of 8. *)
Limb == 2 ^ 28

FloatOne == <<2 ^ 27, 0>>             \* 1.0 = 0x1.0000000000000p+0
FloatHalf == <<2 ^ 26, 0>>            \* 0.5 = 0x1.0000000000000p-1
Float020 == <<26843545, 161061274>>   \* 0.2 = 0x1.999999999999ap-3
Float015 == <<20132659, 53687091>>    \* 0.15 = 0x1.3333333333333p-3

FloatLess(a, b) == a[1] < b[1] \/ (a[1] = b[1] /\ a[2] < b[2])

\* min(a, b): b if b < a, else a.
FloatMin(a, b) == IF FloatLess(b, a) THEN b ELSE a

\* The exact sum rounded to 53 significant bits, ties to even.
FloatAdd(a, b) ==
    LET lo0 == a[2] + b[2]
        hi == a[1] + b[1] + (lo0 \div Limb)
        lo == lo0 % Limb
        grid == IF hi >= 2 ^ 27 THEN 8 ELSE 4
        rest == lo % grid
        down == lo - rest
        up == 2 * rest > grid \/ (2 * rest = grid /\ (down \div grid) % 2 = 1)
        lo1 == IF up THEN down + grid ELSE down
    IN  <<hi + (lo1 \div Limb), lo1 % Limb>>

\* Mutant: the sum returned without min(1.0, ...).
calculate_confidence_unclamped(analysis_data) ==
    LET c0 == FloatHalf
        c1 == IF Truthy(analysis_data.components) THEN FloatAdd(c0, Float020) ELSE c0
        c2 == IF Truthy(analysis_data.hooks) THEN FloatAdd(c1, Float020) ELSE c1
        c3 == IF Truthy(analysis_data.events) THEN FloatAdd(c2, Float015) ELSE c2
        c4 == IF Truthy(analysis_data.styling) THEN FloatAdd(c3, Float015) ELSE c3
    IN  c4

calculate_confidence(analysis_data) ==
    LET c0 == FloatHalf
        c1 == IF Truthy(analysis_data.components) THEN FloatAdd(c0, Float020) ELSE c0
        c2 == IF Truthy(analysis_data.hooks) THEN FloatAdd(c1, Float020) ELSE c1
        c3 == IF Truthy(analysis_data.events) THEN FloatAdd(c2, Float015) ELSE c2
        c4 == IF Truthy(analysis_data.styling) THEN FloatAdd(c3, Float015) ELSE c3
    IN  FloatMin(FloatOne, c4)

get_affected_elements(change_type) ==
    CASE change_type = "state_management" ->
            <<"component-tree", "data-flow", "render-cycle", "state-updates">>
      [] change_type = "side_effects" ->
            <<"lifecycle", "api-calls", "subscriptions", "cleanup">>
      [] change_type = "event_handling" ->
            <<"user-interaction", "state-updates", "ui-changes", "event-flow">>
      [] change_type = "styling" ->
            <<"visual-layout", "css-rendering", "responsive-design", "style-cascade">>
      [] change_type = "component_structure" ->
            <<"component-hierarchy", "props-flow", "composition-pattern">>
      [] change_type = "general_coding" ->
            <<"code-structure", "javascript-execution", "logic-flow">>
      [] OTHER -> <<"general-concepts">>

ChangeTypes ==
    {"state_management", "side_effects", "event_handling", "styling",
     "component_structure", "general_coding"}

\* The explanation and the suggestions are table entries keyed by change_type,
\* with the general_coding entry for an unknown key; the entry is named by its key.
generate_explanation(change_type, analysis_data) ==
    IF change_type \in ChangeTypes THEN change_type ELSE "general_coding"

get_suggestions(change_type, analysis_data) ==
    IF change_type \in ChangeTypes THEN change_type ELSE "general_coding"

----------------------------------------------------------------------------
(* Responses *)

Idle == [op |-> "none"]

HTTPException(op, arg, status_code, detail) ==
    [op |-> op, arg |-> arg, status_code |-> status_code, detail |-> detail]

Ok(op, arg, body) ==
    [op |-> op, arg |-> arg, status_code |-> 200, body |-> body]

\* Model(**d) of a pydantic model: the declared fields are kept, the other keys dropped.
Project(d, fields) == [k \in fields |-> d[k]]

CodeAnalysisResponseFields ==
    {"analysis_id", "timestamp", "change_type", "affected_elements", "components",
     "hooks", "events", "styling", "explanation", "confidence", "suggestions",
     "significant_change"}

CodeAnalysisResponse(d) == Project(d, CodeAnalysisResponseFields)

VideoGenerationResponseFields ==
    {"video_id", "status", "progress", "video_url", "thumbnail_url", "duration",
     "generated_at"}

VideoGenerationResponse(d) == Project(d, VideoGenerationResponseFields)

----------------------------------------------------------------------------
(* Requests the model sends *)

Item(form, cap, text) == [form |-> form, cap |-> cap, text |-> text]

HeaderCode ==
    <<Item("function", TRUE, <<"Header">>), Item("on_attr", TRUE, <<"on", "Click">>),
      Item("className", TRUE, <<"btn-primary">>)>>

CounterCode ==
    <<Item("use", TRUE, useState), Item("function", FALSE, <<"helper">>)>>

WidgetCode ==
    <<Item("class", TRUE, <<"Widget">>), Item("class_name", TRUE, <<"box">>)>>

AnalyzeRequest(code, language, user_id) ==
    [code |-> code, language |-> language, context |-> <<>>, user_id |-> user_id,
     session_id |-> None]

AnalyzeRequests ==
    {AnalyzeRequest(HeaderCode, "javascript", Some("u1")),
     AnalyzeRequest(CounterCode, "typescript", Some("u1")),
     AnalyzeRequest(WidgetCode, "python", Some("u2")),
     AnalyzeRequest(<<>>, "javascript", None)}

UserIds == {"u1", "u2"}

Limits == {-1, 0, 1, 2}

----------------------------------------------------------------------------
(* POST /analyze *)

\* Mutant: significant_change = bool(components).
AnalysisResult_components_only(request, analysis_id, now) ==
    LET components == extract_components(request.code, request.language)
        hooks == extract_hooks(request.code, request.language)
        events == extract_event_handlers(request.code, request.language)
        styling == extract_styling(request.code, request.language)
        analysis_data == [components |-> components, hooks |-> hooks,
                          events |-> events, styling |-> styling]
        change_type == determine_change_type(analysis_data)
    IN  [analysis_id |-> analysis_id,
         timestamp |-> IsoFormat(now),
         code |-> request.code,
         language |-> request.language,
         change_type |-> change_type,
         affected_elements |-> get_affected_elements(change_type),
         components |-> components,
         hooks |-> hooks,
         events |-> events,
         styling |-> styling,
         explanation |-> generate_explanation(change_type, analysis_data),
         confidence |-> calculate_confidence(analysis_data),
         suggestions |-> get_suggestions(change_type, analysis_data),
         significant_change |-> Truthy(components),
         context |-> request.context,
         user_id |-> request.user_id,
         session_id |-> request.session_id]

AnalysisResult(request, analysis_id, now) ==
    LET components == extract_components(request.code, request.language)
        hooks == extract_hooks(request.code, request.language)
        events == extract_event_handlers(request.code, request.language)
        styling == extract_styling(request.code, request.language)
        analysis_data == [components |-> components, hooks |-> hooks,
                          events |-> events, styling |-> styling]
        change_type == determine_change_type(analysis_data)
    IN  [analysis_id |-> analysis_id,
         timestamp |-> IsoFormat(now),
         code |-> request.code,
         language |-> request.language,
         change_type |-> change_type,
         affected_elements |-> get_affected_elements(change_type),
         components |-> components,
         hooks |-> hooks,
         events |-> events,
         styling |-> styling,
         explanation |-> generate_explanation(change_type, analysis_data),
         confidence |-> calculate_confidence(analysis_data),
         suggestions |-> get_suggestions(change_type, analysis_data),
         significant_change |->
             (Truthy(components) \/ Truthy(hooks) \/ Truthy(events) \/ Truthy(styling)),
         context |-> request.context,
         user_id |-> request.user_id,
         session_id |-> request.session_id]

\* fault: where the try block raises, if it does.  "assemble" is a fault before
\* line 412 stores the record, "respond" one in line 414, after it.
\* lag: the ticks between the clock read of line 365 and that of line 394.
analyze_code(request, lag, fault) ==
    /\ calls' = calls + 1
    /\ lag = 0 \/ (fault # "assemble" /\ clock + lag <= MaxClock)
    /\ clock' = clock + lag
    /\ LET analysis_id == MintId(clock)
           analysis_result == AnalysisResult(request, analysis_id, clock + lag)
       IN  /\ analysis_storage' =
                 IF fault = "assemble" THEN analysis_storage
                 ELSE DictSet(analysis_storage, analysis_id, analysis_result)
           /\ response' =
                 IF fault = "none"
                 THEN Ok("analyze_code", analysis_id, CodeAnalysisResponse(analysis_result))
                 ELSE HTTPException("analyze_code", analysis_id, 500, "Analysis failed")
    /\ UNCHANGED <<video_generation_status, tasks, cls_in, cls_out, conf_out>>

----------------------------------------------------------------------------
(* GET /analysis/{analysis_id} *)

get_analysis(analysis_id) ==
    /\ response' =
          IF analysis_id \notin DOMAIN analysis_storage
          THEN HTTPException("get_analysis", analysis_id, 404, "Analysis not found")
          ELSE Ok("get_analysis", analysis_id, analysis_storage[analysis_id])
    /\ UNCHANGED <<clock, calls, analysis_storage, video_generation_status, tasks,
                   cls_in, cls_out, conf_out>>

----------------------------------------------------------------------------
(* GET /user-history/{user_id} *)

RECURSIVE KeysAscending(_)
KeysAscending(S) ==
    IF S = {} THEN <<>>
    ELSE LET m == CHOOSE x \in S : \A y \in S : x <= y
         IN  <<m>> \o KeysAscending(S \ {m})

\* dict.values(): insertion order.  A key is the millisecond of its first
\* insertion and the clock never runs backwards, so that is ascending key order.
DictValues(d) ==
    LET keys == KeysAscending(DOMAIN d)
    IN  [i \in 1..Len(keys) |-> d[keys[i]]]

Filter(xs, user_id) ==
    SelectSeq(xs, LAMBDA analysis : analysis.user_id = Some(user_id))

\* x goes behind every element whose key is not smaller: descending, and stable.
InsertDescending(sorted, x) ==
    LET n == Cardinality({i \in 1..Len(sorted) : sorted[i].timestamp >= x.timestamp})
    IN  SubSeq(sorted, 1, n) \o <<x>> \o SubSeq(sorted, n + 1, Len(sorted))

RECURSIVE SortByTimestampReverse(_)
SortByTimestampReverse(xs) ==
    IF xs = <<>> THEN <<>>
    ELSE InsertDescending(SortByTimestampReverse(SubSeq(xs, 1, Len(xs) - 1)), xs[Len(xs)])

get_user_history(user_id, limit) ==
    /\ LET user_analyses ==
               SortByTimestampReverse(Filter(DictValues(analysis_storage), user_id))
       IN  response' = Ok("get_user_history", <<user_id, limit>>,
                          [user_id |-> user_id,
                           total_analyses |-> Len(user_analyses),
                           analyses |-> SliceTo(user_analyses, limit)])
    /\ UNCHANGED <<clock, calls, analysis_storage, video_generation_status, tasks,
                   cls_in, cls_out, conf_out>>

----------------------------------------------------------------------------
(* POST /generate-video *)

VideoRequest(change_type, title) ==
    [analysis_id |-> 0, change_type |-> change_type, code_snippet |-> "snippet",
     explanation |-> change_type, affected_elements |-> get_affected_elements(change_type),
     title |-> title]

VideoRequests == {VideoRequest("state_management", None)}

\* change_type.replace('_', ' ')
ReplaceUnderscore(change_type) ==
    CASE change_type = "state_management" -> "state management"
      [] change_type = "side_effects" -> "side effects"
      [] change_type = "event_handling" -> "event handling"
      [] change_type = "component_structure" -> "component structure"
      [] change_type = "general_coding" -> "general coding"
      [] OTHER -> change_type

\* request.title or f"Understanding: {...}": None and "" are falsy.
Title(request) ==
    IF request.title # None /\ request.title # Some("")
    THEN request.title[1]
    ELSE "Understanding: " \o ReplaceUnderscore(request.change_type)

\* Mutant: the record created already generating.
InitialVideoStatus_generating(request, video_id) ==
    [video_id |-> video_id,
     status |-> "generating",
     progress |-> 10,
     video_url |-> None,
     thumbnail_url |-> None,
     duration |-> None,
     generated_at |-> None,
     analysis_id |-> request.analysis_id,
     title |-> Title(request)]

InitialVideoStatus(request, video_id) ==
    [video_id |-> video_id,
     status |-> "pending",
     progress |-> 0,
     video_url |-> None,
     thumbnail_url |-> None,
     duration |-> None,
     generated_at |-> None,
     analysis_id |-> request.analysis_id,
     title |-> Title(request)]

Task(video_id) == [video_id |-> video_id, pc |-> "scheduled", at |-> 0, wake |-> 0]

\* fault: where the try block raises, if it does.  "before_store" is a fault in
\* lines 438-451; "after_store" is one in lines 456-465, after line 453 stored
\* the record: add_task raised, or the response could not be built and the
\* failed request's background tasks are dropped with it.
generate_video(request, fault) ==
    /\ calls' = calls + 1
    /\ LET video_id == MintId(clock)
           video_status == InitialVideoStatus(request, video_id)
       IN  /\ video_generation_status' =
                 IF fault = "before_store" THEN video_generation_status
                 ELSE DictSet(video_generation_status, video_id, video_status)
           /\ tasks' = IF fault = "none" THEN Append(tasks, Task(video_id)) ELSE tasks
           /\ response' =
                 IF fault = "none"
                 THEN Ok("generate_video", video_id, VideoGenerationResponse(video_status))
                 ELSE HTTPException("generate_video", video_id, 500,
                                    "Video generation failed")
    /\ UNCHANGED <<clock, analysis_storage, cls_in, cls_out, conf_out>>

----------------------------------------------------------------------------
(* GET /video-status/{video_id} *)

\* Mutant: a lookup that inserts a default for a missing key.
get_video_status_setdefault(video_id) ==
    /\ video_generation_status' =
          IF video_id \in DOMAIN video_generation_status THEN video_generation_status
          ELSE DictSet(video_generation_status, video_id,
                       InitialVideoStatus(VideoRequest("general_coding", None), video_id))
    /\ response' = Ok("get_video_status", video_id,
                      VideoGenerationResponse(video_generation_status'[video_id]))
    /\ UNCHANGED <<clock, calls, analysis_storage, tasks, cls_in, cls_out, conf_out>>

get_video_status(video_id) ==
    /\ response' =
          IF video_id \notin DOMAIN video_generation_status
          THEN HTTPException("get_video_status", video_id, 404, "Video not found")
          ELSE Ok("get_video_status", video_id,
                  VideoGenerationResponse(video_generation_status[video_id]))
    /\ UNCHANGED <<clock, calls, analysis_storage, video_generation_status, tasks,
                   cls_in, cls_out, conf_out>>

----------------------------------------------------------------------------
(* generate_video_background *)

SleepTicks == SleepMs * TicksPerMs

\* range(20, 100, 20)
ProgressRange ==
    [i \in 1..((RangeStop - RangeStart + RangeStep - 1) \div RangeStep) |->
        RangeStart + (i - 1) * RangeStep]

GeneratingUpdate == [status |-> "generating", progress |-> InitialProgress]

\* Mutant: the completion that forgets the status.
CompletedUpdate_no_status(video_id, now) ==
    [progress |-> FinalProgress,
     video_url |-> Some(<<"/videos/", video_id, ".webm">>),
     thumbnail_url |-> Some(<<"/thumbnails/", video_id, ".jpg">>),
     duration |-> Some(VideoDuration),
     generated_at |-> Some(IsoFormat(now))]

CompletedUpdate(video_id, now) ==
    [status |-> "completed",
     progress |-> FinalProgress,
     video_url |-> Some(<<"/videos/", video_id, ".webm">>),
     thumbnail_url |-> Some(<<"/thumbnails/", video_id, ".jpg">>),
     duration |-> Some(VideoDuration),
     generated_at |-> Some(IsoFormat(now))]

FailedUpdate == [status |-> "failed", error |-> "fault"]

\* The except clause of lines 575-579.
Fail(store, video_id) == DictSet(store, video_id, DictUpdate(store[video_id], FailedUpdate))

\* What follows a progress write: the next sleep of the loop, or, the range
\* exhausted, lines 566-573.  fault = "completing" is a fault in building the
\* completion record (line 572), after the last progress write.  (A fault in
\* entering a sleep leaves the record a fault raised by that sleep leaves.)
Proceed(i, store, next, fault) ==
    LET video_id == tasks[i].video_id
    IN  IF next <= Len(ProgressRange)
        THEN /\ fault = "none"
             /\ video_generation_status' = store
             /\ tasks' = [tasks EXCEPT ![i] = [video_id |-> video_id, pc |-> "sleeping",
                                               at |-> next, wake |-> clock + SleepTicks]]
        ELSE IF fault = "completing"
        THEN /\ video_generation_status' = Fail(store, video_id)
             /\ tasks' = [tasks EXCEPT ![i].pc = "failed"]
        ELSE /\ video_generation_status' =
                    DictSet(store, video_id,
                            DictUpdate(store[video_id], CompletedUpdate(video_id, clock)))
             /\ tasks' = [tasks EXCEPT ![i].pc = "completed"]

\* Lines 555-562: the task starts, up to its first sleep.
BackgroundStart(i, fault) ==
    /\ i \in 1..Len(tasks)
    /\ tasks[i].pc = "scheduled"
    /\ LET video_id == tasks[i].video_id
       IN  IF fault = "before"
           THEN /\ video_generation_status' = Fail(video_generation_status, video_id)
                /\ tasks' = [tasks EXCEPT ![i].pc = "failed"]
           ELSE Proceed(i,
                        DictSet(video_generation_status, video_id,
                                DictUpdate(video_generation_status[video_id],
                                           GeneratingUpdate)),
                        1, fault)
    /\ response' = Idle
    /\ UNCHANGED <<clock, calls, analysis_storage, cls_in, cls_out, conf_out>>

\* Lines 562-573: a sleep ends, the progress is written, and the task goes on
\* to its next sleep or completes.  fault = "before" is a fault raised by the sleep.
BackgroundWake(i, fault) ==
    /\ i \in 1..Len(tasks)
    /\ tasks[i].pc = "sleeping"
    /\ clock >= tasks[i].wake
    /\ LET video_id == tasks[i].video_id
           at == tasks[i].at
       IN  IF fault = "before"
           THEN /\ video_generation_status' = Fail(video_generation_status, video_id)
                /\ tasks' = [tasks EXCEPT ![i].pc = "failed"]
           ELSE Proceed(i,
                        DictSet(video_generation_status, video_id,
                                DictUpdate(video_generation_status[video_id],
                                           [progress |-> ProgressRange[at]])),
                        at + 1, fault)
    /\ response' = Idle
    /\ UNCHANGED <<clock, calls, analysis_storage, cls_in, cls_out, conf_out>>

Faults == {"none", "before", "completing"}

----------------------------------------------------------------------------
(* The clock *)

Tick ==
    /\ clock < MaxClock
    /\ clock' = clock + 1
    /\ response' = Idle
    /\ UNCHANGED <<calls, analysis_storage, video_generation_status, tasks, cls_in, cls_out, conf_out>>

Sleeping == {i \in 1..Len(tasks) : tasks[i].pc = "sleeping" /\ tasks[i].wake > clock}

\* Time passes until the next sleep is over.
AdvanceToWake ==
    /\ Sleeping # {}
    /\ clock' = (CHOOSE w \in {tasks[i].wake : i \in Sleeping} :
                    \A i \in Sleeping : w <= tasks[i].wake)
    /\ response' = Idle
    /\ UNCHANGED <<calls, analysis_storage, video_generation_status, tasks, cls_in, cls_out, conf_out>>

----------------------------------------------------------------------------
(* The service *)

NoInput == [components |-> {}, hooks |-> {}, events |-> {}, styling |-> {}]

InitService ==
    /\ clock = 0
    /\ calls = 0
    /\ analysis_storage = <<>>
    /\ video_generation_status = <<>>
    /\ tasks = <<>>
    /\ response = Idle

Init ==
    /\ InitService
    /\ cls_in = NoInput
    /\ cls_out = ""
    /\ conf_out = None

\* An id no request has been given yet.
FreshId == MintId(clock) + 1

Posts ==
    \/ \E request \in AnalyzeRequests, lag \in 0..MaxLag,
          fault \in {"none", "assemble", "respond"} : analyze_code(request, lag, fault)
    \/ \E request \in VideoRequests, fault \in {"none", "before_store", "after_store"} :
          generate_video(request, fault)

Gets ==
    \/ \E video_id \in DOMAIN video_generation_status \cup {FreshId} :
          get_video_status(video_id)
    \/ \E analysis_id \in DOMAIN analysis_storage \cup {FreshId} :
          get_analysis(analysis_id)
    \/ \E user_id \in UserIds, limit \in Limits : get_user_history(user_id, limit)

Background ==
    \/ \E i \in 1..Len(tasks), fault \in Faults : BackgroundStart(i, fault)
    \/ \E i \in 1..Len(tasks), fault \in Faults : BackgroundWake(i, fault)

Time ==
    \/ Tick
    \/ AdvanceToWake

Next ==
    \/ calls < MaxCalls /\ Posts
    \/ Gets
    \/ Background
    \/ Time

Spec == Init /\ [][Next]_vars

\* The service under fewer POST requests.
SmallNext ==
    \/ calls < MaxCallsSmall /\ Posts
    \/ Gets
    \/ Background
    \/ Time

SmallSpec == Init /\ [][SmallNext]_vars

\* The video jobs and their readers alone.  The event loop runs every task
\* that is ready, and time passes.
LiveNext ==
    \/ calls < MaxCallsSmall /\ \E request \in VideoRequests,
            fault \in {"none", "before_store", "after_store"} : generate_video(request, fault)
    \/ \E video_id \in DOMAIN video_generation_status \cup {FreshId} :
          get_video_status(video_id)
    \/ Background
    \/ Time

LiveSpec ==
    /\ Init
    /\ [][LiveNext]_vars
    /\ \A i \in 1..MaxCallsSmall :
          WF_vars(\E fault \in Faults : BackgroundStart(i, fault) \/ BackgroundWake(i, fault))
    /\ WF_vars(AdvanceToWake)

----------------------------------------------------------------------------
(* The classifier alone: determine_change_type and calculate_confidence applied
   to one analysis_data. *)

HookNames ==
    {<<"use", p>> \o rest :
        p \in {"State", "Reducer", "Effect", "Memo"},
        rest \in {<<>>, <<"ful">>, <<"use", "State">>, <<"use", "Effect">>}}

\* The sets of at most n elements of S.
RECURSIVE UpTo(_, _)
UpTo(S, n) ==
    IF n = 0 THEN {{}}
    ELSE LET smaller == UpTo(S, n - 1)
         IN  smaller \cup {xs \cup {x} : xs \in smaller, x \in S}

AnalysisData ==
    [components : {{}, {<<"Header">>}},
     hooks : UpTo(HookNames, MaxHooks),
     events : {{}, {<<"on", "Click">>}},
     styling : {{}, {<<"btn-primary">>}}]

InitClassify ==
    /\ InitService
    /\ cls_in \in AnalysisData
    /\ cls_out = ""
    /\ conf_out = None

Classify ==
    /\ cls_out = ""
    /\ cls_out' = determine_change_type(cls_in)
    /\ UNCHANGED <<clock, calls, analysis_storage, video_generation_status, tasks,
                   response, cls_in, conf_out>>

Confidence ==
    /\ conf_out = None
    /\ conf_out' = calculate_confidence(cls_in)
    /\ UNCHANGED <<clock, calls, analysis_storage, video_generation_status, tasks,
                   response, cls_in, cls_out>>

NextClassify ==
    \/ Classify
    \/ Confidence

SpecClassify == InitClassify /\ [][NextClassify]_vars

----------------------------------------------------------------------------
(* Properties *)

Terminal == {"completed", "failed"}

\* A step that served a POST request.
Posted == calls' = calls + 1

\* C1: no call mints an id that is already a key of its store: neither Analyze
\* nor StartVideoJob ever writes over an existing record.
C1_UniqueIds ==
    [][Posted =>
         /\ response'.op = "analyze_code" => response'.arg \notin DOMAIN analysis_storage
         /\ response'.op = "generate_video" =>
                response'.arg \notin DOMAIN video_generation_status]_vars

\* C2: the progress stored under a video_id never decreases from one state to the next.
C2_ProgressNeverDecreases ==
    [][\A video_id \in DOMAIN video_generation_status :
         video_generation_status'[video_id].progress
            >= video_generation_status[video_id].progress]_vars

\* C3: once the record under a video_id is completed or failed, no step changes it.
C3_TerminalAbsorbing ==
    [][\A video_id \in DOMAIN video_generation_status :
         video_generation_status[video_id].status \in Terminal =>
            video_generation_status'[video_id] = video_generation_status[video_id]]_vars

ResultFieldsSet(job) ==
    /\ job.video_url # None
    /\ job.thumbnail_url # None
    /\ job.duration # None
    /\ job.generated_at # None

\* C5: every stored video job, as a status query can read it, is a whole-record
\* state: completed iff progress 100 iff all result fields set; pending has
\* progress 0; generating has progress in {10, 20, 40, 60, 80}.
C5_WholeRecord ==
    \A video_id \in DOMAIN video_generation_status :
        LET job == video_generation_status[video_id]
        IN  /\ job.status = "completed" <=> job.progress = 100
            /\ job.status = "completed" <=> ResultFieldsSet(job)
            /\ job.status = "pending" => job.progress = 0
            /\ job.status = "generating" => job.progress \in {10, 20, 40, 60, 80}

\* C6: when StartVideoJob reports a setup failure, the video-job store is what
\* it was before the call and no background task was scheduled.
C6_FailureLeavesNothing ==
    [][(Posted /\ response'.op = "generate_video" /\ response'.status_code = 500) =>
         /\ video_generation_status' = video_generation_status
         /\ tasks' = tasks]_vars

\* C10: ListUserHistory returns at most limit records, all of that user, in
\* strictly descending order of creation time, whatever the limit.
C10_HistoryBounded ==
    response.op = "get_user_history" =>
        LET user_id == response.arg[1]
            limit == response.arg[2]
            analyses == response.body.analyses
        IN  /\ Len(analyses) <= limit
            /\ \A i \in 1..Len(analyses) : analyses[i].user_id = Some(user_id)
            /\ \A i \in 1..(Len(analyses) - 1) :
                   analyses[i].timestamp > analyses[i + 1].timestamp

StateHook(hooks) == \E h \in hooks : Contains(h, useState) \/ Contains(h, useReducer)

EffectHook(hooks) == \E h \in hooks : Contains(h, useEffect)

\* C4: the classifier returns the label of the first matching rule of the
\* fixed order, always one of the six labels; a state-style hook gives
\* state_management whatever the other sets hold.
C4_FirstMatchWins ==
    cls_out # "" =>
        /\ cls_out \in ChangeTypes
        /\ StateHook(cls_in.hooks) => cls_out = "state_management"
        /\ (~StateHook(cls_in.hooks) /\ EffectHook(cls_in.hooks)) => cls_out = "side_effects"
        /\ (~StateHook(cls_in.hooks) /\ ~EffectHook(cls_in.hooks)) =>
              cls_out = IF cls_in.events # {} THEN "event_handling"
                        ELSE IF cls_in.styling # {} THEN "styling"
                        ELSE IF cls_in.components # {} THEN "component_structure"
                        ELSE "general_coding"

\* A state hook next to an effect hook, events, styling and components, classified.
C4_Witness ==
    /\ cls_out = "state_management"
    /\ EffectHook(cls_in.hooks)
    /\ cls_in.events # {}
    /\ cls_in.styling # {}
    /\ cls_in.components # {}

TasksOf(video_id) == {i \in 1..Len(tasks) : tasks[i].video_id = video_id}

Ended == {"completed", "failed"}

\* C7: under fair scheduling the task of every accepted job runs to its end,
\* nothing cancels or stalls it; at that moment the job has status completed or
\* failed; and a job whose tasks all ran without fault is completed with
\* progress 100 and every result field set.
C7_EventuallyTerminal ==
    /\ \A i \in 1..MaxCallsSmall :
          (Len(tasks) >= i) ~> (Len(tasks) >= i /\ tasks[i].pc \in Ended)
    /\ [][\A i \in 1..Len(tasks) :
             (tasks[i].pc \notin Ended /\ tasks'[i].pc \in Ended) =>
                 video_generation_status'[tasks[i].video_id].status = tasks'[i].pc]_vars
    /\ [](\A video_id \in DOMAIN video_generation_status :
             (TasksOf(video_id) # {} /\ \A i \in TasksOf(video_id) : tasks[i].pc = "completed")
                => LET job == video_generation_status[video_id]
                   IN  /\ job.status = "completed"
                       /\ job.progress = 100
                       /\ ResultFieldsSet(job))

\* An accepted job whose task ran its whole sequence.
C7_Witness ==
    \E i \in 1..Len(tasks) :
        /\ tasks[i].pc = "completed"
        /\ video_generation_status[tasks[i].video_id].status = "completed"

\* A step in which StartVideoJob returned a job to its caller.
Accepted == Posted /\ response'.op = "generate_video" /\ response'.status_code = 200

\* C8 as stated: StartVideoJob returns after the pending -> generating
\* transition: the snapshot returned and the record stored are generating, progress 10.
C8_ReturnsGenerating ==
    [][Accepted =>
         /\ response'.body.status = "generating"
         /\ response'.body.progress = 10
         /\ video_generation_status'[response'.arg].status = "generating"
         /\ video_generation_status'[response'.arg].progress = 10]_vars

\* C8 amended: StartVideoJob returns with the job still pending: the snapshot
\* returned and the record stored are pending, progress 0, and the task that
\* will make the transition is scheduled, not yet started.
C8_ReturnsPending ==
    [][Accepted =>
         /\ response'.body.status = "pending"
         /\ response'.body.progress = 0
         /\ video_generation_status'[response'.arg].status = "pending"
         /\ video_generation_status'[response'.arg].progress = 0
         /\ Len(tasks') = Len(tasks) + 1
         /\ tasks'[Len(tasks')].video_id = response'.arg
         /\ tasks'[Len(tasks')].pc = "scheduled"]_vars

\* StartVideoJob has just returned a job.
C8_Witness ==
    /\ response.op = "generate_video"
    /\ response.status_code = 200
    /\ video_generation_status[response.arg].status = "pending"

\* A read step: what it must leave alone, and when it signals NotFound.
ReadFrame(store) ==
    /\ response'.status_code = (IF response'.arg \in DOMAIN store THEN 200 ELSE 404)
    /\ UNCHANGED <<analysis_storage, video_generation_status, tasks>>
    /\ (response.op = response'.op /\ response.arg = response'.arg) => response' = response

FloatLiteral(hundredths) ==
    CASE hundredths = 50 -> <<67108864, 0>>             \* 0.5
      [] hundredths = 65 -> <<87241523, 53687092>>      \* 0.65 = 0x1.4cccccccccccdp-1
      [] hundredths = 70 -> <<93952409, 161061272>>     \* 0.7 = 0x1.6666666666666p-1
      [] hundredths = 80 -> <<107374182, 107374184>>    \* 0.8 = 0x1.999999999999ap-1
      [] hundredths = 85 -> <<114085068, 214748364>>    \* 0.85 = 0x1.b333333333333p-1
      [] hundredths = 90 -> <<120795955, 53687092>>     \* 0.9 = 0x1.ccccccccccccdp-1
      [] hundredths = 100 -> <<134217728, 0>>           \* 1.0

\* min(1.00, 0.50 + 0.20 + 0.20 + 0.15 + 0.15) in hundredths, for the non-empty sets.
Hundredths(analysis_data) ==
    LET sum == 50
               + (IF analysis_data.components # {} THEN 20 ELSE 0)
               + (IF analysis_data.hooks # {} THEN 20 ELSE 0)
               + (IF analysis_data.events # {} THEN 15 ELSE 0)
               + (IF analysis_data.styling # {} THEN 15 ELSE 0)
    IN  IF sum < 100 THEN sum ELSE 100

\* The 16 combinations of empty and non-empty extraction sets.
Combinations ==
    [components : {{}, {<<"Header">>}},
     hooks : {{}, {<<"use", "State">>}},
     events : {{}, {<<"on", "Click">>}},
     styling : {{}, {<<"btn-primary">>}}]

\* b has every non-empty set of a non-empty.
Fuller(a, b) ==
    /\ a.components # {} => b.components # {}
    /\ a.hooks # {} => b.hooks # {}
    /\ a.events # {} => b.events # {}
    /\ a.styling # {} => b.styling # {}

AllEmpty(analysis_data) ==
    /\ analysis_data.components = {}
    /\ analysis_data.hooks = {}
    /\ analysis_data.events = {}
    /\ analysis_data.styling = {}

NoneEmpty(analysis_data) ==
    /\ analysis_data.components # {}
    /\ analysis_data.hooks # {}
    /\ analysis_data.events # {}
    /\ analysis_data.styling # {}

ComponentsAndHooksOnly(analysis_data) ==
    /\ analysis_data.components # {}
    /\ analysis_data.hooks # {}
    /\ analysis_data.events = {}
    /\ analysis_data.styling = {}

\* 0.8999999999999999 = 0x1.cccccccccccccp-1, the double next below 0.9.
BelowNineTenths == <<120795955, 53687088>>

\* The formula as one expression of doubles, an empty set contributing 0.0:
\* min(1.00, 0.50 + 0.20|0.0 + 0.20|0.0 + 0.15|0.0 + 0.15|0.0), summed left to right.
FormulaValue(analysis_data) ==
    LET zero == <<0, 0>>
        term(set, increment) == IF set # {} THEN increment ELSE zero
        sum == FloatAdd(FloatAdd(FloatAdd(FloatAdd(FloatLiteral(50),
                   term(analysis_data.components, Float020)),
                   term(analysis_data.hooks, Float020)),
                   term(analysis_data.events, Float015)),
                   term(analysis_data.styling, Float015))
    IN  FloatMin(FloatLiteral(100), sum)

\* The 16 results as doubles: the one nearest to the decimal value of the
\* formula, except for components and hooks alone, where 0.5 + 0.2 + 0.2 is the
\* double next below 0.9.
TableValue(analysis_data) ==
    IF ComponentsAndHooksOnly(analysis_data) THEN BelowNineTenths
    ELSE FloatLiteral(Hundredths(analysis_data))

\* C11: for each of the 16 combinations calculate_confidence returns
\* min(1.00, 0.50 + 0.20 + 0.20 + 0.15 + 0.15 over the non-empty sets); it is
\* 0.50 for four empty sets, never above 1.00 (1.00, not 1.20, for four non-empty
\* sets), and never lower for an input with more non-empty sets.
C11_ConfidenceFormula ==
    conf_out # None =>
        /\ conf_out = FormulaValue(cls_in)
        /\ conf_out = TableValue(cls_in)
        /\ AllEmpty(cls_in) => conf_out = FloatLiteral(50)
        /\ ~FloatLess(FloatLiteral(100), conf_out)
        /\ NoneEmpty(cls_in) => conf_out = FloatLiteral(100)
        /\ \A fuller \in Combinations :
              Fuller(cls_in, fuller) => ~FloatLess(calculate_confidence(fuller), conf_out)

\* The confidence of four non-empty sets has been calculated and is 1.00.
C11_Witness ==
    /\ NoneEmpty(cls_in)
    /\ conf_out = FloatLiteral(100)

\* The formula read in decimal arithmetic: violated by components and hooks alone.
C11_DecimalValue ==
    conf_out # None => conf_out = FloatLiteral(Hundredths(cls_in))

\* C12: every stored analysis record has significant_change true exactly when
\* one of its components, hooks, events and styling is non-empty; a record with
\* all four empty has significant_change false and change_type general_coding.
C12_SignificantIffExtracted ==
    \A id \in DOMAIN analysis_storage :
        LET record == analysis_storage[id]
        IN  /\ record.significant_change \in BOOLEAN
            /\ record.significant_change <=> ~AllEmpty(record)
            /\ AllEmpty(record) =>
                  /\ record.significant_change = FALSE
                  /\ record.change_type = "general_coding"

\* The store holds a record with nothing extracted: not significant, general_coding.
C12_Witness ==
    \E id \in DOMAIN analysis_storage :
        LET record == analysis_storage[id]
        IN  /\ AllEmpty(record)
            /\ ~record.significant_change
            /\ record.change_type = "general_coding"

====
